---- MODULE Spec2Model ----
(***************************************************************************)
(* Model of time_parser.py: the three clause matchers _ParsePeriod,        *)
(* _ParseDate and _ParseTime and their conjunction IsAvailable.            *)
(*                                                                         *)
(* A rule string is a sequence of one-character strings; the three regular *)
(* expressions are matched on those characters, and strptime / strftime    *)
(* are modelled on the digits they read and write.  A datetime is a record *)
(* [year, month, day, hour, minute, second]; `second` stands for all the   *)
(* sub-minute precision of the instant.                                    *)
(***************************************************************************)
EXTENDS Integers, Sequences, FiniteSets, TLC

VARIABLES
    date_time,   \* the datetime argument of the call
    string,      \* the rule string argument of the call
    pc,          \* "ready" before the call, "done" after it returned or raised
    called,      \* the function that was called ("none" before the call)
    outcome,     \* "True" / "False" / "ParseError" ("none" before the call)
    evaluated    \* the matchers IsAvailable evaluated, in order

vars == <<date_time, string, pc, called, outcome, evaluated>>

(***************************************************************************)
(* Characters                                                              *)
(***************************************************************************)
DigitValue ==
    ("0" :> 0) @@ ("1" :> 1) @@ ("2" :> 2) @@ ("3" :> 3) @@ ("4" :> 4) @@
    ("5" :> 5) @@ ("6" :> 6) @@ ("7" :> 7) @@ ("8" :> 8) @@ ("9" :> 9)

DigitChar == <<"0", "1", "2", "3", "4", "5", "6", "7", "8", "9">>

IsDigit(c) == c \in DOMAIN DigitValue

\* str.lower() on one character
LowerMap ==
    ("A" :> "a") @@ ("D" :> "d") @@ ("E" :> "e") @@ ("F" :> "f") @@
    ("H" :> "h") @@ ("I" :> "i") @@ ("K" :> "k") @@ ("M" :> "m") @@
    ("N" :> "n") @@ ("O" :> "o") @@ ("P" :> "p") @@ ("R" :> "r") @@
    ("S" :> "s") @@ ("T" :> "t") @@ ("U" :> "u") @@ ("W" :> "w") @@
    ("Y" :> "y")

LowerChar(c) == IF c \in DOMAIN LowerMap THEN LowerMap[c] ELSE c

Lower(s) == [i \in 1..Len(s) |-> LowerChar(s[i])]

\* the character at position i, "" past either end of the string
At(s, i) == IF i >= 1 /\ i <= Len(s) THEN s[i] ELSE ""

\* the literal lit occurs in s at position i
HasPrefixAt(s, i, lit) ==
    /\ i >= 1
    /\ i + Len(lit) - 1 <= Len(s)
    /\ \A k \in 1..Len(lit) : s[i + k - 1] = lit[k]

\* the n characters of s from position i are all digits
AllDigits(s, i, n) == \A k \in 0..(n - 1) : IsDigit(At(s, i + k))

\* length of the run of characters of s from position i that belong to cls
RECURSIVE RunLength(_, _, _)
RunLength(s, i, cls) ==
    IF At(s, i) \notin cls THEN 0 ELSE 1 + RunLength(s, i + 1, cls)

Min(S) == CHOOSE x \in S : \A y \in S : x <= y

\* the largest element of a set of positions, 0 for the empty set
MaxOrZero(S) == IF S = {} THEN 0 ELSE CHOOSE x \in S : \A y \in S : x >= y

\* int() of a sequence of digit characters
RECURSIVE ToInt(_)
ToInt(s) ==
    IF Len(s) = 0 THEN 0
    ELSE 10 * ToInt(SubSeq(s, 1, Len(s) - 1)) + DigitValue[s[Len(s)]]

\* the number written by the n digits of s from position i
Field(s, i, n) == ToInt(SubSeq(s, i, i + n - 1))

(***************************************************************************)
(* The three regular expressions (time_parser.py lines 21-34)              *)
(***************************************************************************)
LitEvery == <<"e", "v", "e", "r", "y", " ">>
LitDate  == <<"d", "a", "t", "e", ":", " ">>
LitTime  == <<"t", "i", "m", "e", ":", " ">>

\* the character class [mon|tue|wed|thu|fri|sat|sun|day|weekday|weekend]
PeriodClass ==
    {"m", "o", "n", "|", "t", "u", "e", "w", "d", "h", "f", "r", "i", "s",
     "a", "y", "k"}

\* search() found nothing (None)
NoMatch == [matched |-> FALSE, group1 |-> <<>>, group2 |-> <<>>]

\* the match of `every ([...]+)` at the leftmost of the positions starts;
\* group 1 is the longest run of class characters
PeriodMatchAt(s, starts) ==
    IF starts = {} THEN NoMatch
    ELSE [matched |-> TRUE,
          group1  |-> SubSeq(s, Min(starts) + 6,
                             Min(starts) + 5
                               + RunLength(s, Min(starts) + 6, PeriodClass)),
          group2  |-> <<>>]

\* _PERIOD_REGEX.search(s)
PERIOD_REGEX_search(s) ==
    PeriodMatchAt(s, {i \in 1..Len(s) :
                         /\ HasPrefixAt(s, i, LitEvery)
                         /\ At(s, i + 6) \in PeriodClass})

\* \d{1,2}/\d{1,2}/\d{1,4} matches at position i with a digits of day, b of
\* month and y of year
DateGroupShape(s, i, a, b, y) ==
    /\ AllDigits(s, i, a)
    /\ At(s, i + a) = "/"
    /\ AllDigits(s, i + a + 1, b)
    /\ At(s, i + a + b + 1) = "/"
    /\ AllDigits(s, i + a + b + 2, y)

\* the position after the (greedy, so longest) match of the date group at
\* position i, 0 when there is no match
DateGroupEnd(s, i) ==
    MaxOrZero({i + t[1] + t[2] + t[3] + 2 :
                  t \in {u \in (1..2) \X (1..2) \X (1..4) :
                            DateGroupShape(s, i, u[1], u[2], u[3])}})

\* -? : the position after an optional hyphen at position e
AfterHyphen(s, e) == IF At(s, e) = "-" THEN e + 1 ELSE e

\* the groups of a match: group 1 is s[b1..e1-1]; the optional group 2,
\* tried at b2, is s[b2..e2-1], or <<>> (None) when e2 = 0
Groups(s, b1, e1, b2, e2) ==
    [matched |-> TRUE,
     group1  |-> SubSeq(s, b1, e1 - 1),
     group2  |-> IF e2 = 0 THEN <<>> ELSE SubSeq(s, b2, e2 - 1)]

\* the match of `date: (G)-?(G)?` whose group 1 spans b1..e1-1
DateMatchGroups(s, b1, e1) ==
    Groups(s, b1, e1, AfterHyphen(s, e1), DateGroupEnd(s, AfterHyphen(s, e1)))

\* the match at the leftmost of the positions starts
DateMatchAt(s, starts) ==
    IF starts = {} THEN NoMatch
    ELSE DateMatchGroups(s, Min(starts) + 6, DateGroupEnd(s, Min(starts) + 6))

\* _DATE_REGEX.search(s)
DATE_REGEX_search(s) ==
    DateMatchAt(s, {i \in 1..Len(s) :
                       /\ HasPrefixAt(s, i, LitDate)
                       /\ DateGroupEnd(s, i + 6) # 0})

\* \d{1,2}:\d{1,2} [A|P]M matches at position i with a digits of hour and b
\* of minute
TimeGroupShape(s, i, a, b) ==
    /\ AllDigits(s, i, a)
    /\ At(s, i + a) = ":"
    /\ AllDigits(s, i + a + 1, b)
    /\ At(s, i + a + b + 1) = " "
    /\ At(s, i + a + b + 2) \in {"A", "|", "P"}
    /\ At(s, i + a + b + 3) = "M"

\* the space before the meridiem made optional: \d{1,2}:\d{1,2} ?[A|P]M
TimeGroupEnd_OptionalSpace(s, i) ==
    MaxOrZero({i + t[1] + t[2] + 4 :
                  t \in {u \in (1..2) \X (1..2) :
                            TimeGroupShape(s, i, u[1], u[2])}}
              \cup
              {i + t[1] + t[2] + 3 :
                  t \in {u \in (1..2) \X (1..2) :
                            /\ AllDigits(s, i, u[1])
                            /\ At(s, i + u[1]) = ":"
                            /\ AllDigits(s, i + u[1] + 1, u[2])
                            /\ At(s, i + u[1] + u[2] + 1) \in {"A", "|", "P"}
                            /\ At(s, i + u[1] + u[2] + 2) = "M"}})

\* the position after the match of the time group at position i, 0 when
\* there is no match
TimeGroupEnd(s, i) ==
    MaxOrZero({i + t[1] + t[2] + 4 :
                  t \in {u \in (1..2) \X (1..2) :
                            TimeGroupShape(s, i, u[1], u[2])}})

\* the match of `time: (G)-?(G)?` whose group 1 spans b1..e1-1
TimeMatchGroups(s, b1, e1) ==
    Groups(s, b1, e1, AfterHyphen(s, e1), TimeGroupEnd(s, AfterHyphen(s, e1)))

\* the match at the leftmost of the positions starts
TimeMatchAt(s, starts) ==
    IF starts = {} THEN NoMatch
    ELSE TimeMatchGroups(s, Min(starts) + 6, TimeGroupEnd(s, Min(starts) + 6))

\* _TIME_REGEX.search(s)
TIME_REGEX_search(s) ==
    TimeMatchAt(s, {i \in 1..Len(s) :
                       /\ HasPrefixAt(s, i, LitTime)
                       /\ TimeGroupEnd(s, i + 6) # 0})

(***************************************************************************)
(* datetime: the library calls the matchers make                           *)
(***************************************************************************)
IsLeap(y) == (y % 4 = 0) /\ ((y % 100 # 0) \/ (y % 400 = 0))

DaysInMonth(y, m) ==
    IF m = 2 THEN (IF IsLeap(y) THEN 29 ELSE 28)
    ELSE IF m \in {4, 6, 9, 11} THEN 30
    ELSE 31

RECURSIVE DaysBeforeMonth(_, _)
DaysBeforeMonth(y, m) ==
    IF m <= 1 THEN 0 ELSE DaysInMonth(y, m - 1) + DaysBeforeMonth(y, m - 1)

\* days before 1 January of year y + 1
DaysBeforeYearAfter(y) == y * 365 + (y \div 4) - (y \div 100) + (y \div 400)

\* date.toordinal(): 1 for 1 January of year 1
ToOrdinal(dt) ==
    DaysBeforeYearAfter(dt.year - 1) + DaysBeforeMonth(dt.year, dt.month) + dt.day

\* datetime.weekday(): 0 for Monday ... 6 for Sunday
Weekday(dt) == (ToOrdinal(dt) + 6) % 7

DayAbbr ==
    << <<"M", "o", "n">>, <<"T", "u", "e">>, <<"W", "e", "d">>,
       <<"T", "h", "u">>, <<"F", "r", "i">>, <<"S", "a", "t">>,
       <<"S", "u", "n">> >>

\* date_time.strftime('%a')
StrftimeA(dt) == DayAbbr[Weekday(dt) + 1]

\* decimal digits of a natural number, without padding
RECURSIVE Decimal(_)
Decimal(n) ==
    IF n < 10 THEN <<DigitChar[n + 1]>>
    ELSE Decimal(n \div 10) \o <<DigitChar[(n % 10) + 1]>>

Pad2(n) == IF n < 10 THEN <<"0">> \o Decimal(n) ELSE Decimal(n)

\* date_time.strftime('%d/%m/%Y ')
StrftimeDMY(dt) ==
    Pad2(dt.day) \o <<"/">> \o Pad2(dt.month) \o <<"/">> \o Decimal(dt.year)
      \o <<" ">>

\* datetime.date(): the calendar date of a datetime
DateOf(dt) == [year |-> dt.year, month |-> dt.month, day |-> dt.day]

\* seconds of the day
SecondOfDay(dt) == dt.hour * 3600 + dt.minute * 60 + dt.second

\* a <= b on datetimes (year, month, day, hour, minute, second in order)
DateTimeLE(a, b) ==
    \/ ToOrdinal(a) < ToOrdinal(b)
    \/ ToOrdinal(a) = ToOrdinal(b) /\ SecondOfDay(a) <= SecondOfDay(b)

\* a <= b on dates
DateLE(a, b) == ToOrdinal(a) <= ToOrdinal(b)

\* strptime raised ValueError
ValueError == [ok |-> FALSE]

\* the datetime strptime builds: %d is 3[0-1]|[1-2]\d|0[1-9]|[1-9], %m is
\* 1[0-2]|0[1-9]|[1-9], and datetime rejects year 0 and a day past the
\* month's end
MakeDateTime(d, m, y, h, mi) ==
    IF d \notin 1..31 THEN ValueError
    ELSE IF m \notin 1..12 THEN ValueError
    ELSE IF y < 1 THEN ValueError
    ELSE IF d > DaysInMonth(y, m) THEN ValueError
    ELSE [ok |-> TRUE,
          value |-> [year |-> y, month |-> m, day |-> d,
                     hour |-> h, minute |-> mi, second |-> 0]]

\* text starts with %d/%m/%Y, a digits of day, b of month, \d\d\d\d of year
DMYShape(text, a, b) ==
    /\ AllDigits(text, 1, a)
    /\ At(text, a + 1) = "/"
    /\ AllDigits(text, a + 2, b)
    /\ At(text, a + b + 2) = "/"
    /\ AllDigits(text, a + b + 3, 4)

\* the datetime of a text matched with a = t[1] digits of day, b = t[2] of
\* month
DMYOf(text, t) ==
    MakeDateTime(Field(text, 1, t[1]), Field(text, t[1] + 2, t[2]),
                 Field(text, t[1] + t[2] + 3, 4), 0, 0)

\* ValueError when the format matches in no way
DMYResult(text, shapes) ==
    IF shapes = {} THEN ValueError ELSE DMYOf(text, CHOOSE t \in shapes : TRUE)

\* datetime.datetime.strptime(text, '%d/%m/%Y'): the whole text must match
StrptimeDMY(text) ==
    DMYResult(text, {t \in (1..2) \X (1..2) :
                        /\ DMYShape(text, t[1], t[2])
                        /\ Len(text) = t[1] + t[2] + 6})

\* %I and %p converted to the hour of the day
Hour24(h, ampm) ==
    IF ampm = <<"a", "m">> THEN (IF h = 12 THEN 0 ELSE h)
    ELSE (IF h = 12 THEN 12 ELSE h + 12)

\* positions of the hour, the minute and the meridiem in a text matched
\* with t[1], t[2] digits of day, month and t[3], t[4] of hour, minute
PosI(t) == t[1] + t[2] + 8
PosM(t) == PosI(t) + t[3] + 1
PosP(t) == PosM(t) + t[4] + 1

\* text matches %d/%m/%Y %I:%M %p with those numbers of digits; %p is am or
\* pm without regard to case
DMYIMpShape(text, t) ==
    /\ DMYShape(text, t[1], t[2])
    /\ At(text, PosI(t) - 1) = " "
    /\ AllDigits(text, PosI(t), t[3])
    /\ At(text, PosM(t) - 1) = ":"
    /\ AllDigits(text, PosM(t), t[4])
    /\ At(text, PosP(t) - 1) = " "
    /\ Len(text) = PosP(t) + 1
    /\ Lower(SubSeq(text, PosP(t), PosP(t) + 1)) \in {<<"a", "m">>, <<"p", "m">>}

\* hours past 12 wrapped round the clock instead of rejected
DMYIMpOf_WrapHour(text, t) ==
    IF Field(text, PosI(t), t[3]) \notin 1..24 THEN ValueError
    ELSE IF Field(text, PosM(t), t[4]) \notin 0..59 THEN ValueError
    ELSE MakeDateTime(Field(text, 1, t[1]), Field(text, t[1] + 2, t[2]),
                      Field(text, t[1] + t[2] + 3, 4),
                      Hour24(((Field(text, PosI(t), t[3]) - 1) % 12) + 1,
                             Lower(SubSeq(text, PosP(t), PosP(t) + 1))),
                      Field(text, PosM(t), t[4]))

\* the datetime of a matched text: %I is 1[0-2]|0[1-9]|[1-9], %M is
\* [0-5]\d|\d
DMYIMpOf(text, t) ==
    IF Field(text, PosI(t), t[3]) \notin 1..12 THEN ValueError
    ELSE IF Field(text, PosM(t), t[4]) \notin 0..59 THEN ValueError
    ELSE MakeDateTime(Field(text, 1, t[1]), Field(text, t[1] + 2, t[2]),
                      Field(text, t[1] + t[2] + 3, 4),
                      Hour24(Field(text, PosI(t), t[3]),
                             Lower(SubSeq(text, PosP(t), PosP(t) + 1))),
                      Field(text, PosM(t), t[4]))

\* ValueError when the format matches in no way
DMYIMpResult(text, shapes) ==
    IF shapes = {} THEN ValueError ELSE DMYIMpOf(text, CHOOSE t \in shapes : TRUE)

\* datetime.datetime.strptime(text, '%d/%m/%Y %I:%M %p')
StrptimeDMYIMp(text) ==
    DMYIMpResult(text, {t \in (1..2) \X (1..2) \X (1..2) \X (1..2) :
                           DMYIMpShape(text, t)})

(***************************************************************************)
(* The matchers                                                            *)
(***************************************************************************)
\* Saturday and Sunday in isoweekday() numbering
WEEKEND_DAYS_IsoWeekday == {6, 7}

\* _WEEKEND_DAYS: Saturday and Sunday
WEEKEND_DAYS == {5, 6}

Bool(b) == IF b THEN "True" ELSE "False"

\* lines 60-69: the lower-cased group 1 against the instant
PeriodAvailable(dt, period) ==
    IF period = <<"d", "a", "y">> THEN "True"
    ELSE IF period = <<"w", "e", "e", "k", "e", "n", "d">>
         THEN Bool(Weekday(dt) \in WEEKEND_DAYS)
    ELSE IF period = <<"w", "e", "e", "k", "d", "a", "y">>
         THEN Bool(Weekday(dt) \notin WEEKEND_DAYS)
    ELSE Bool(Lower(StrftimeA(dt)) = period)

\* lines 59-70, period being the result of the search
ParsePeriodMatch(dt, period) ==
    IF period.matched THEN PeriodAvailable(dt, Lower(period.group1)) ELSE "True"

\* _ParsePeriod(date_time, string)
ParsePeriod(dt, s) == ParsePeriodMatch(dt, PERIOD_REGEX_search(s))

\* the end compared as a timestamp (midnight of the end date)
DateAvailableWithEnd_EndFullPrecision(dt, start_date, end_date) ==
    IF ~end_date.ok THEN "ParseError"
    ELSE IF ~start_date.ok THEN "ParseError"
    ELSE Bool(/\ DateTimeLE(dt, end_date.value)
              /\ DateTimeLE(start_date.value, dt))

\* False returned as soon as the end check fails, the start left unparsed
DateAvailableWithEnd_ReturnEarly(dt, start_date, end_date) ==
    IF ~end_date.ok THEN "ParseError"
    ELSE IF ~DateLE(DateOf(dt), DateOf(end_date.value)) THEN "False"
    ELSE IF ~start_date.ok THEN "ParseError"
    ELSE Bool(DateTimeLE(start_date.value, dt))

\* lines 94-103 with an end date: start_date and end_date are the results
\* of the two strptime calls, of which either may have raised ValueError
DateAvailableWithEnd(dt, start_date, end_date) ==
    IF ~end_date.ok THEN "ParseError"
    ELSE IF ~start_date.ok THEN "ParseError"
    ELSE Bool(/\ DateLE(DateOf(dt), DateOf(end_date.value))
              /\ DateTimeLE(start_date.value, dt))

\* the equality check of a date clause without end left out
DateAvailableNoEnd_NoEquality(dt, start_date) ==
    IF ~start_date.ok THEN "ParseError"
    ELSE Bool(DateTimeLE(start_date.value, dt))

\* lines 94-103 without end date
DateAvailableNoEnd(dt, start_date) ==
    IF ~start_date.ok THEN "ParseError"
    ELSE Bool(/\ DateTimeLE(start_date.value, dt)
              /\ DateOf(start_date.value) = DateOf(dt))

\* lines 91-104, date being the result of the search
ParseDateMatch(dt, date) ==
    IF ~date.matched THEN "True"
    ELSE IF date.group2 # <<>>
    THEN DateAvailableWithEnd(dt, StrptimeDMY(date.group1), StrptimeDMY(date.group2))
    ELSE DateAvailableNoEnd(dt, StrptimeDMY(date.group1))

\* _ParseDate(date_time, string)
ParseDate(dt, s) == ParseDateMatch(dt, DATE_REGEX_search(s))

\* the instant compared to the minute, its seconds dropped
TimeAvailableWithEnd_MinutePrecision(dt, start_time, end_time) ==
    IF ~end_time.ok THEN "ParseError"
    ELSE IF ~start_time.ok THEN "ParseError"
    ELSE Bool(/\ DateTimeLE([dt EXCEPT !.second = 0], end_time.value)
              /\ DateTimeLE(start_time.value, dt))

\* lines 128-140 with an end time: start_time and end_time are the results
\* of the two strptime calls, of which either may have raised ValueError
TimeAvailableWithEnd(dt, start_time, end_time) ==
    IF ~end_time.ok THEN "ParseError"
    ELSE IF ~start_time.ok THEN "ParseError"
    ELSE Bool(/\ DateTimeLE(dt, end_time.value)
              /\ DateTimeLE(start_time.value, dt))

\* the equality check of a time clause without end left out
TimeAvailableNoEnd_NoExactMatch(dt, start_time) ==
    IF ~start_time.ok THEN "ParseError"
    ELSE Bool(DateTimeLE(start_time.value, dt))

\* lines 128-140 without end time
TimeAvailableNoEnd(dt, start_time) ==
    IF ~start_time.ok THEN "ParseError"
    ELSE Bool(/\ start_time.value = dt
              /\ DateTimeLE(start_time.value, dt))

\* lines 125-141, time being the result of the search
ParseTimeMatch(dt, time) ==
    IF ~time.matched THEN "True"
    ELSE IF time.group2 # <<>>
    THEN TimeAvailableWithEnd(dt, StrptimeDMYIMp(StrftimeDMY(dt) \o time.group1),
                              StrptimeDMYIMp(StrftimeDMY(dt) \o time.group2))
    ELSE TimeAvailableNoEnd(dt, StrptimeDMYIMp(StrftimeDMY(dt) \o time.group1))

\* _ParseTime(date_time, string)
ParseTime(dt, s) == ParseTimeMatch(dt, TIME_REGEX_search(s))

\* the three matchers all run before their results are combined
And3_Eager(p, d, t) ==
    [outcome   |-> IF d = "ParseError" \/ t = "ParseError" THEN "ParseError"
                   ELSE Bool(p = "True" /\ d = "True" /\ t = "True"),
     evaluated |-> <<"period", "date", "time">>]

\* `p and d and t` of lines 161-162: the operands are run in order up to the
\* first that is false or raises, which decides the outcome; the operands
\* run are recorded
And3(p, d, t) ==
    IF p # "True" THEN [outcome |-> p, evaluated |-> <<"period">>]
    ELSE IF d # "True" THEN [outcome |-> d, evaluated |-> <<"period", "date">>]
    ELSE [outcome |-> t, evaluated |-> <<"period", "date", "time">>]

\* IsAvailable(date_time, string)
IsAvailable(dt, s) == And3(ParsePeriod(dt, s), ParseDate(dt, s), ParseTime(dt, s))

(***************************************************************************)
(* The calls explored: instants and rule strings                           *)
(***************************************************************************)
\* the instants fall on NumDays consecutive days from 9 January 2014 (a
\* Thursday), on the same day of the next month and of the next year
NumDays == 7

InstantDates ==
    {[year |-> 2014, month |-> 1, day |-> 8 + n] : n \in 1..NumDays}
      \cup {[year |-> 2014, month |-> 2, day |-> 10],
            [year |-> 2015, month |-> 1, day |-> 10]}

InstantTimes ==
    {[hour |-> 0,  minute |-> 0, second |-> 0],
     [hour |-> 8,  minute |-> 0, second |-> 0],
     [hour |-> 12, minute |-> 0, second |-> 0],
     [hour |-> 15, minute |-> 0, second |-> 0],
     [hour |-> 17, minute |-> 0, second |-> 0],
     [hour |-> 17, minute |-> 0, second |-> 30]}

Instants ==
    {[year |-> d.year, month |-> d.month, day |-> d.day,
      hour |-> t.hour, minute |-> t.minute, second |-> t.second] :
        d \in InstantDates, t \in InstantTimes}

\* times as a rule writes them: hour, minute, "A" or "P"
WrittenTimes ==
    {[h |-> 12, m |-> 0,  p |-> "A"], [h |-> 8,  m |-> 0,  p |-> "A"],
     [h |-> 12, m |-> 0,  p |-> "P"], [h |-> 5,  m |-> 0,  p |-> "P"],
     [h |-> 15, m |-> 0,  p |-> "P"], [h |-> 8,  m |-> 60, p |-> "A"]}

\* a time of the 12-hour clock
ValidTime(t) == t.h \in 1..12 /\ t.m \in 0..59

\* dates as a rule writes them: day, month, year
WrittenDates ==
    {[day |-> 10, month |-> 1,  year |-> 2014],
     [day |-> 12, month |-> 1,  year |-> 2014],
     [day |-> 32, month |-> 13, year |-> 9999],
     [day |-> 29, month |-> 2,  year |-> 2014],
     [day |-> 10, month |-> 1,  year |-> 14]}

\* a calendar date that dd/mm/yyyy can write
ValidDate(d) ==
    /\ d.year \in 1000..9999
    /\ d.month \in 1..12
    /\ d.day >= 1
    /\ d.day <= (IF d.month = 2
                 THEN (IF d.year % 4 = 0 /\ (d.year % 100 # 0 \/ d.year % 400 = 0)
                       THEN 29 ELSE 28)
                 ELSE IF d.month \in {4, 6, 9, 11} THEN 30 ELSE 31)

TimeText(t) == Decimal(t.h) \o <<":">> \o Pad2(t.m) \o <<" ", t.p, "M">>

DateText(d) ==
    Decimal(d.day) \o <<"/">> \o Decimal(d.month) \o <<"/">> \o Decimal(d.year)

\* "time: <start>" and "time: <start>-<end>"
TimeClause1(s) == LitTime \o TimeText(s)
TimeClause2(s, e) == LitTime \o TimeText(s) \o <<"-">> \o TimeText(e)

\* "date: <start>" and "date: <start>-<end>"
DateClause1(s) == LitDate \o DateText(s)
DateClause2(s, e) == LitDate \o DateText(s) \o <<"-">> \o DateText(e)

\* "every <token>"
PeriodClause(token) == LitEvery \o token

Abbrevs ==
    {<<"m", "o", "n">>, <<"t", "u", "e">>, <<"w", "e", "d">>, <<"t", "h", "u">>, <<"f", "r", "i">>, <<"s", "a", "t">>, <<"s", "u", "n">>}

\* an abbreviation in the three letter cases the rules are written in
Upper(s) ==
    [i \in 1..Len(s) |->
        CHOOSE c \in DOMAIN LowerMap : LowerMap[c] = s[i]]
Capitalized(s) == <<Upper(s)[1]>> \o SubSeq(s, 2, Len(s))
MixedCase(s) == <<s[1]>> \o SubSeq(Upper(s), 2, Len(s))

CasedAbbrevs ==
    Abbrevs \cup {Capitalized(<<"f", "r", "i">>), Upper(<<"f", "r", "i">>),
                  MixedCase(<<"f", "r", "i">>), Capitalized(<<"m", "o", "n">>)}

TokWeekend == <<"w", "e", "e", "k", "e", "n", "d">>
TokWeekday == <<"w", "e", "e", "k", "d", "a", "y">>
TokDay     == <<"d", "a", "y">>

PeriodRules ==
    {PeriodClause(tok) : tok \in CasedAbbrevs \cup {TokWeekend, TokWeekday, TokDay}}

DateRules ==
    {DateClause1(s) : s \in WrittenDates}
      \cup {DateClause2(s, e) : s \in WrittenDates, e \in WrittenDates}

TimeRules ==
    {TimeClause1(s) : s \in WrittenTimes}
      \cup {TimeClause2(s, e) : s \in WrittenTimes, e \in WrittenTimes}

\* text that holds no clause of the grammar, some of it close to one
NoClauseRules ==
    {<<>>,
     <<"e", "v", "e", "r", "y">>,
     <<"e", "v", "e", "r", "y", " ", "x", "y", "z">>,
     <<"e", "v", "e", "r", "y", "d", "a", "y">>,
     <<"d", "a", "t", "e", " ", "3", "2", "/", "1", "3", "/", "9", "9", "9", "9">>,
     <<"d", "a", "t", "e", ":", " ", "3", "2", "-", "1", "3", "-", "9", "9", "9", "9">>,
     <<"D", "a", "t", "e", ":", " ", "3", "2", "/", "1", "3", "/", "9", "9", "9", "9">>,
     <<"d", "a", "t", "e", ":", " ", "3", "2", "/", "1", "3">>,
     <<"t", "i", "m", "e", " ", "1", "5", ":", "0", "0", " ", "P", "M">>,
     <<"t", "i", "m", "e", ":", " ", "1", "5", ":", "0", "0", "P", "M">>,
     <<"t", "i", "m", "e", ":", " ", "1", "5", ":", "0", "0", " ", "p", "m">>,
     <<"T", "i", "m", "e", ":", " ", "1", "5", ":", "0", "0", " ", "P", "M">>,
     <<"a", "l", "w", "a", "y", "s">>}

\* rules of several clauses: "<period> <date> <time>", any of them left out
Join(a, b) == IF a = <<>> THEN b ELSE IF b = <<>> THEN a ELSE a \o <<" ">> \o b

\* a clause left out is written as the empty sequence
PeriodText(tok) == IF tok = <<>> THEN <<>> ELSE PeriodClause(tok)

DateClauseText(ds) ==
    IF Len(ds) = 0 THEN <<>>
    ELSE IF Len(ds) = 1 THEN DateClause1(ds[1])
    ELSE DateClause2(ds[1], ds[2])

TimeClauseText(ts) ==
    IF Len(ts) = 0 THEN <<>>
    ELSE IF Len(ts) = 1 THEN TimeClause1(ts[1])
    ELSE TimeClause2(ts[1], ts[2])

ComboText(p, ds, ts) == Join(Join(PeriodText(p), DateClauseText(ds)), TimeClauseText(ts))

ComboTextReversed(p, ds, ts) ==
    Join(Join(TimeClauseText(ts), DateClauseText(ds)), PeriodText(p))

ComboPeriods == {<<>>, <<"f", "r", "i">>, TokWeekend, TokDay}

ComboDates ==
    {<<>>,
     <<[day |-> 10, month |-> 1, year |-> 2014]>>,
     <<[day |-> 32, month |-> 13, year |-> 9999]>>,
     <<[day |-> 10, month |-> 1, year |-> 2014],
       [day |-> 12, month |-> 1, year |-> 2014]>>}

ComboTimes ==
    {<<>>,
     <<[h |-> 8, m |-> 0, p |-> "A"], [h |-> 5, m |-> 0, p |-> "P"]>>,
     <<[h |-> 8, m |-> 0, p |-> "A"], [h |-> 15, m |-> 0, p |-> "P"]>>,
     <<[h |-> 15, m |-> 0, p |-> "P"]>>}

\* the rules of several clauses, each with the clauses it was written from
WrittenCombos ==
    {[text |-> ComboText(p, ds, ts), period |-> p, dates |-> ds, times |-> ts] :
        p \in ComboPeriods, ds \in ComboDates, ts \in ComboTimes}
      \cup {[text |-> ComboTextReversed(p, ds, ts),
             period |-> p, dates |-> ds, times |-> ts] :
                p \in ComboPeriods, ds \in ComboDates, ts \in ComboTimes}

ComboRules == {c.text : c \in WrittenCombos}

Rules == PeriodRules \cup DateRules \cup TimeRules \cup NoClauseRules \cup ComboRules

(***************************************************************************)
(* The state machine: one call of one function on one instant and rule     *)
(***************************************************************************)
Init ==
    /\ date_time \in Instants
    /\ string \in Rules
    /\ pc = "ready"
    /\ called = "none"
    /\ outcome = "none"
    /\ evaluated = <<>>

\* a direct call of _ParsePeriod
CallParsePeriod ==
    /\ pc = "ready"
    /\ called' = "_ParsePeriod"
    /\ outcome' = ParsePeriod(date_time, string)
    /\ pc' = "done"
    /\ UNCHANGED <<date_time, string, evaluated>>

\* a direct call of _ParseDate
CallParseDate ==
    /\ pc = "ready"
    /\ called' = "_ParseDate"
    /\ outcome' = ParseDate(date_time, string)
    /\ pc' = "done"
    /\ UNCHANGED <<date_time, string, evaluated>>

\* a direct call of _ParseTime
CallParseTime ==
    /\ pc = "ready"
    /\ called' = "_ParseTime"
    /\ outcome' = ParseTime(date_time, string)
    /\ pc' = "done"
    /\ UNCHANGED <<date_time, string, evaluated>>

\* a call of IsAvailable
CallIsAvailable ==
    /\ pc = "ready"
    /\ called' = "IsAvailable"
    /\ \E r \in {IsAvailable(date_time, string)} :
           /\ outcome' = r.outcome
           /\ evaluated' = r.evaluated
    /\ pc' = "done"
    /\ UNCHANGED <<date_time, string>>

Next ==
    \/ CallParsePeriod
    \/ CallParseDate
    \/ CallParseTime
    \/ CallIsAvailable

Spec == Init /\ [][Next]_vars

TypeOK ==
    /\ date_time \in Instants
    /\ string \in Rules
    /\ pc \in {"ready", "done"}
    /\ called \in {"none", "_ParsePeriod", "_ParseDate", "_ParseTime", "IsAvailable"}
    /\ outcome \in {"none", "True", "False", "ParseError"}

(***************************************************************************)
(* What a written clause means, read off the numbers the rule writes       *)
(***************************************************************************)
Returned(f) == pc = "done" /\ called = f

\* the weekday of an instant, counted from Friday 10 January 2014
WeekCycle ==
    <<<<"f", "r", "i">>, <<"s", "a", "t">>, <<"s", "u", "n">>, <<"m", "o", "n">>, <<"t", "u", "e">>, <<"w", "e", "d">>, <<"t", "h", "u">>>>

DaysFromFriday(dt) ==
    (dt.year - 2014) * 365 + (IF dt.month = 2 THEN 31 ELSE 0) + dt.day - 10

InstantAbbrev(dt) == WeekCycle[(DaysFromFriday(dt) % 7) + 1]

IsWeekendInstant(dt) == InstantAbbrev(dt) \in {<<"s", "a", "t">>, <<"s", "u", "n">>}

\* year, month, day as one number ordered like the dates
DateKey(d) == d.year * 10000 + d.month * 100 + d.day

\* the written time as seconds after midnight
WrittenSeconds(t) ==
    ((t.h % 12) + (IF t.p = "P" THEN 12 ELSE 0)) * 3600 + t.m * 60

\* a full timestamp: the date, then the second of the day
Stamp(d, seconds) == [date |-> DateKey(d), seconds |-> seconds]

InstantStamp(dt) == Stamp(dt, SecondOfDay(dt))

StampLE(a, b) ==
    \/ a.date < b.date
    \/ a.date = b.date /\ a.seconds <= b.seconds

\* the period clause `every tok` matches the instant (no clause: <<>>)
PeriodMeaning(tok, dt) ==
    IF tok = <<>> \/ tok = TokDay THEN "True"
    ELSE IF tok = TokWeekend THEN Bool(IsWeekendInstant(dt))
    ELSE IF tok = TokWeekday THEN Bool(~IsWeekendInstant(dt))
    ELSE Bool(tok = InstantAbbrev(dt))

\* the date clause with the written dates ds (none, start, or start and end)
DateMeaning(ds, dt) ==
    IF Len(ds) = 0 THEN "True"
    ELSE IF \E i \in 1..Len(ds) : ~ValidDate(ds[i]) THEN "ParseError"
    ELSE IF Len(ds) = 1 THEN Bool(DateKey(ds[1]) = DateKey(dt))
    ELSE Bool(/\ StampLE(Stamp(ds[1], 0), InstantStamp(dt))
              /\ DateKey(dt) <= DateKey(ds[2]))

\* the time clause with the written times ts (none, start, or start and end)
TimeMeaning(ts, dt) ==
    IF Len(ts) = 0 THEN "True"
    ELSE IF \E i \in 1..Len(ts) : ~ValidTime(ts[i]) THEN "ParseError"
    ELSE IF Len(ts) = 1 THEN Bool(WrittenSeconds(ts[1]) = SecondOfDay(dt))
    ELSE Bool(/\ WrittenSeconds(ts[1]) <= SecondOfDay(dt)
              /\ SecondOfDay(dt) <= WrittenSeconds(ts[2]))

T8AM  == [h |-> 8,  m |-> 0, p |-> "A"]
T5PM  == [h |-> 5,  m |-> 0, p |-> "P"]
T15PM == [h |-> 15, m |-> 0, p |-> "P"]
D10Jan == [day |-> 10, month |-> 1, year |-> 2014]
D12Jan == [day |-> 12, month |-> 1, year |-> 2014]
DBad   == [day |-> 32, month |-> 13, year |-> 9999]

(***************************************************************************)
(* C1: for a rule whose only clause is `time: <start>-<end>` with valid    *)
(* start and end, IsAvailable returns true iff start <= instant <= end,    *)
(* both placed on the instant's own day and compared to the second (both   *)
(* bounds inclusive; 30 seconds after the end minute is not available).    *)
(***************************************************************************)
C1_TimeRangeInclusive ==
    Returned("IsAvailable") =>
        \A s \in WrittenTimes, e \in WrittenTimes :
            (ValidTime(s) /\ ValidTime(e) /\ string = TimeClause2(s, e)) =>
                outcome = Bool(/\ WrittenSeconds(s) <= SecondOfDay(date_time)
                               /\ SecondOfDay(date_time) <= WrittenSeconds(e))

C1_Witness ==
    /\ Returned("IsAvailable")
    /\ string = TimeClause2(T8AM, T5PM)
    /\ date_time.hour = 17 /\ date_time.minute = 0 /\ date_time.second = 30
    /\ outcome = "False"

(***************************************************************************)
(* C2: for a rule whose only clause is `date: <start>-<end>` with valid    *)
(* start and end, IsAvailable returns true iff midnight of the start date  *)
(* <= the instant at full precision and the instant's calendar date <= the *)
(* end's calendar date: any time of day on the end date is inside.         *)
(***************************************************************************)
C2_DateRange ==
    Returned("IsAvailable") =>
        \A s \in WrittenDates, e \in WrittenDates :
            (ValidDate(s) /\ ValidDate(e) /\ string = DateClause2(s, e)) =>
                outcome = Bool(/\ StampLE(Stamp(s, 0), InstantStamp(date_time))
                               /\ DateKey(date_time) <= DateKey(e))

C2_Witness ==
    /\ Returned("IsAvailable")
    /\ string = DateClause2(D10Jan, D12Jan)
    /\ DateKey(date_time) = DateKey(D12Jan)
    /\ date_time.hour = 17 /\ date_time.second = 30
    /\ outcome = "True"

(***************************************************************************)
(* C3: for a rule whose only clause is `every <abbrev>`, the abbreviation  *)
(* written in any letter case, IsAvailable returns true iff the instant's  *)
(* weekday abbreviation equals <abbrev> without regard to case.            *)
(***************************************************************************)
C3_AbbrevAnyCase ==
    Returned("IsAvailable") =>
        \A tok \in CasedAbbrevs :
            string = PeriodClause(tok) =>
                outcome = Bool(Lower(tok) = InstantAbbrev(date_time))

(***************************************************************************)
(* C4: `every weekend` is available iff the instant falls on Saturday or   *)
(* Sunday, and `every weekday` iff it does not.                            *)
(***************************************************************************)
C4_WeekendWeekday ==
    Returned("IsAvailable") =>
        /\ string = PeriodClause(TokWeekend) =>
               outcome = Bool(IsWeekendInstant(date_time))
        /\ string = PeriodClause(TokWeekday) =>
               outcome = Bool(~IsWeekendInstant(date_time))

C4_Witness ==
    /\ Returned("IsAvailable")
    /\ string = PeriodClause(TokWeekend)
    /\ InstantAbbrev(date_time) = <<"s", "u", "n">>
    /\ outcome = "True"

(***************************************************************************)
(* C5: for a rule string holding none of the three clauses (the empty      *)
(* string, text that only resembles a clause), IsAvailable returns true    *)
(* and raises no ParseError.                                               *)
(***************************************************************************)
C5_NoClauseAvailable ==
    (Returned("IsAvailable") /\ string \in NoClauseRules) => outcome = "True"

C5_Witness ==
    /\ Returned("IsAvailable")
    /\ string = <<"t", "i", "m", "e", ":", " ", "1", "5", ":", "0", "0", "P", "M">>
    /\ outcome = "True"

\* a written date or time of the clause is not valid
HasInvalidDate(ds) == \E i \in 1..Len(ds) : ~ValidDate(ds[i])
HasInvalidTime(ts) == \E i \in 1..Len(ts) : ~ValidTime(ts[i])

(***************************************************************************)
(* C6, as claimed: for a rule that holds a recognized date: or time:       *)
(* clause with an invalid start or end, IsAvailable always raises          *)
(* ParseError, whatever the other clauses of the rule are.                 *)
(***************************************************************************)
C6_InvalidAlwaysRaises ==
    Returned("IsAvailable") =>
        \A c \in WrittenCombos :
            (string = c.text /\ (HasInvalidDate(c.dates) \/ HasInvalidTime(c.times))) =>
                outcome = "ParseError"

(***************************************************************************)
(* C6, amended: for such a rule IsAvailable raises ParseError unless a     *)
(* matcher that runs before the one holding the invalid clause (the period *)
(* matcher before a date: clause, the period or the date matcher before a  *)
(* time: clause) returns false; then it returns false.  It never returns   *)
(* true.                                                                   *)
(***************************************************************************)
C6_InvalidRaisesUnlessEarlierFalse ==
    Returned("IsAvailable") =>
        \A c \in WrittenCombos :
            (string = c.text /\ (HasInvalidDate(c.dates) \/ HasInvalidTime(c.times))) =>
                LET earlier_false ==
                        \/ PeriodMeaning(c.period, date_time) = "False"
                        \/ /\ ~HasInvalidDate(c.dates)
                           /\ DateMeaning(c.dates, date_time) = "False"
                IN  outcome = IF earlier_false THEN "False" ELSE "ParseError"

\* the test's rule 'every day time: 8:00 AM-15:00 PM'
C6_Witness ==
    /\ Returned("IsAvailable")
    /\ string = ComboText(TokDay, <<>>, <<T8AM, T15PM>>)
    /\ outcome = "ParseError"

(***************************************************************************)
(* C7: IsAvailable runs the period, the date and the time matcher in that  *)
(* order and stops at the first that returns false or raises, whose        *)
(* outcome it yields: a period clause that does not match gives false and  *)
(* no ParseError, the date and time matchers not being run, even when the  *)
(* rule holds a malformed date: or time: clause.                           *)
(***************************************************************************)
C7_ShortCircuitOrder ==
    Returned("IsAvailable") =>
        \A c \in WrittenCombos :
            string = c.text =>
                LET pm == PeriodMeaning(c.period, date_time)
                    dm == DateMeaning(c.dates, date_time)
                    tm == TimeMeaning(c.times, date_time)
                IN  IF pm # "True"
                    THEN outcome = pm /\ evaluated = <<"period">>
                    ELSE IF dm # "True"
                    THEN outcome = dm /\ evaluated = <<"period", "date">>
                    ELSE outcome = tm /\ evaluated = <<"period", "date", "time">>

C7_Witness ==
    /\ Returned("IsAvailable")
    /\ string = ComboText(TokWeekend, <<DBad>>, <<T15PM>>)
    /\ InstantAbbrev(date_time) = <<"f", "r", "i">>
    /\ outcome = "False"
    /\ evaluated = <<"period">>

(***************************************************************************)
(* C8: called on its own, _ParseDate raises ParseError for every instant   *)
(* when the date: clause has an invalid start or end, and _ParseTime when  *)
(* the time: clause has an invalid start or end time; both endpoints are   *)
(* parsed before a result is returned, so the error is raised even when    *)
(* the comparison against the other, valid endpoint is already false.      *)
(***************************************************************************)
C8_MatcherRaisesOnInvalid ==
    /\ Returned("_ParseDate") =>
        /\ \A s \in WrittenDates :
              (~ValidDate(s) /\ string = DateClause1(s)) => outcome = "ParseError"
        /\ \A s \in WrittenDates, e \in WrittenDates :
              ((~ValidDate(s) \/ ~ValidDate(e)) /\ string = DateClause2(s, e)) =>
                  outcome = "ParseError"
        /\ \A c \in WrittenCombos :
              (string = c.text /\ HasInvalidDate(c.dates)) => outcome = "ParseError"
    /\ Returned("_ParseTime") =>
        /\ \A s \in WrittenTimes :
              (~ValidTime(s) /\ string = TimeClause1(s)) => outcome = "ParseError"
        /\ \A s \in WrittenTimes, e \in WrittenTimes :
              ((~ValidTime(s) \/ ~ValidTime(e)) /\ string = TimeClause2(s, e)) =>
                  outcome = "ParseError"
        /\ \A c \in WrittenCombos :
              (string = c.text /\ HasInvalidTime(c.times)) => outcome = "ParseError"

\* the valid end 10/1/2014 is already before the instant; the start is invalid
C8_Witness ==
    /\ Returned("_ParseDate")
    /\ string = DateClause2(DBad, D10Jan)
    /\ DateKey(date_time) = DateKey(D12Jan)
    /\ outcome = "ParseError"

(***************************************************************************)
(* C9: for a rule whose only clause is `date: <start>` with a valid start  *)
(* and no end, IsAvailable returns true iff the instant's calendar date    *)
(* equals the start date, at any time of day.                              *)
(***************************************************************************)
C9_SingleDate ==
    Returned("IsAvailable") =>
        \A s \in WrittenDates :
            (ValidDate(s) /\ string = DateClause1(s)) =>
                outcome = Bool(DateKey(s) = DateKey(date_time))

C9_Witness ==
    /\ Returned("IsAvailable")
    /\ string = DateClause1(D10Jan)
    /\ DateKey(date_time) = DateKey(D10Jan)
    /\ date_time.hour = 17 /\ date_time.second = 30
    /\ outcome = "True"

(***************************************************************************)
(* C10: for a rule whose only clause is `time: <start>` with a valid start *)
(* and no end, IsAvailable returns true iff the instant, to the second, is *)
(* the start time on the instant's own day; any earlier or later instant,  *)
(* on any day, is not available.                                           *)
(***************************************************************************)
C10_SingleTimeExact ==
    Returned("IsAvailable") =>
        \A s \in WrittenTimes :
            (ValidTime(s) /\ string = TimeClause1(s)) =>
                outcome = Bool(WrittenSeconds(s) = SecondOfDay(date_time))

C10_Witness ==
    /\ Returned("IsAvailable")
    /\ string = TimeClause1(T5PM)
    /\ date_time.hour = 17 /\ date_time.minute = 0 /\ date_time.second = 0
    /\ outcome = "True"

====
